---- MODULE Spec2Model ----
(***************************************************************************)
(* Model of queue.c (lab0-c): a queue of strings kept in a circular        *)
(* doubly-linked list with a sentinel.  The heap is modelled explicitly:   *)
(* every list_head is a node id with a next and a prev field, every        *)
(* element_t is a node id with a value (a byte string) as well.            *)
(***************************************************************************)
EXTENDS Integers, Sequences, FiniteSets

\* ------------------------------------------------------------- bounds
\* Number of element_t records the allocator hands out to a caller that
\* inserts and removes freely.
MaxElems == 3
\* Longest queue the list transformations are applied to.
MaxLen == 4
\* Largest bufsize a caller passes to q_remove_head / q_remove_tail.
MaxBuf == 3

\* ---------------------------------------------------------- addresses
NULL == 0
\* Address of the list_head that q_new allocates.
Sentinel == 1
Elems == 2..(MaxLen + 1)
\* The blocks malloc picks from for a caller that inserts and removes freely.
Pool == 2..(MaxElems + 1)
Nodes == {Sentinel} \cup Elems
\* Strings the caller inserts: NUL-free byte strings ("", "ab", "b").
Strings == {<<>>, <<97, 98>>, <<98>>}
\* Those a caller that inserts and removes freely passes ("", "ab").
Inserted == {<<>>, <<97, 98>>}
\* The bufsize arguments a caller passes, 0 included.
BufSizes == 0..MaxBuf
\* The sp and bufsize arguments a caller passes: a buffer of bufsize bytes,
\* or no buffer and bufsize 0.
SpArgs == {<<"NULL", 0>>} \cup {<<"buffer", b>> : b \in BufSizes}
\* Bits of a size_t, the narrowest the C standard allows.
SizeWidth == 16

VARIABLES
    head,    \* the queue handle the caller holds: Sentinel, or NULL
    next,    \* next[n]: the next field of the list_head at n
    prev,    \* prev[n]: the prev field of the list_head at n
    value,   \* value[e]: the bytes of the string e->value points to
    allocE,  \* element_t records that are allocated (linked or caller-held)
    allocS,  \* elements whose value string is allocated
    allocQ,  \* whether the list_head that q_new allocated is allocated
    count,   \* successful insertions minus successful removals/deletions
    last     \* the last call: its name, its result, and the buffer it was given

vars == <<head, next, prev, value, allocE, allocS, allocQ, count, last>>

\* The memory the calls rewrite, as one value: the link fields of every node,
\* the strings, and what is allocated.
Mem == [next |-> next, prev |-> prev, value |-> value,
        allocE |-> allocE, allocS |-> allocS, allocQ |-> allocQ]

\* The call leaves memory as m.
Store(m) ==
    /\ next' = m.next
    /\ prev' = m.prev
    /\ value' = m.value
    /\ allocE' = m.allocE
    /\ allocS' = m.allocS
    /\ allocQ' = m.allocQ

\* ------------------------------------------------------ list.h primitives
INIT_LIST_HEAD(h, hd) ==
    [h EXCEPT !.next[hd] = hd, !.prev[hd] = hd]

list_empty(h, hd) == h.next[hd] = hd

list_is_singular(h, hd) == ~list_empty(h, hd) /\ h.prev[hd] = h.next[hd]

\* Link node right after hd.
list_add(h, node, hd) ==
    LET nx == h.next[hd]
    IN  [h EXCEPT !.prev[nx] = node, !.next[node] = nx,
                  !.prev[node] = hd, !.next[hd] = node]

\* Link node right before hd.
list_add_tail(h, node, hd) ==
    LET pv == h.prev[hd]
    IN  [h EXCEPT !.prev[hd] = node, !.next[node] = hd,
                  !.prev[node] = pv, !.next[pv] = node]

\* Unlink node; its own two fields are left as they were.
list_del(h, node) ==
    LET nx == h.next[node]
        pv == h.prev[node]
    IN  [h EXCEPT !.prev[nx] = pv, !.next[pv] = nx]

\* Unlink node and link it right before hd.
list_move_tail(h, node, hd) == list_add_tail(list_del(h, node), node, hd)

\* ------------------------------------------------------ reading the list
\* The nodes met following next from node until stop (or NULL) is met.
RECURSIVE Walk(_, _, _, _)
Walk(nx, node, stop, fuel) ==
    IF node = stop \/ node = NULL \/ fuel = 0
    THEN <<>>
    ELSE <<node>> \o Walk(nx, nx[node], stop, fuel - 1)

\* The elements of the queue, first to last.
Items ==
    IF head = NULL THEN <<>> ELSE Walk(next, next[head], head, MaxLen + 1)

\* The strings of the queue, first to last.
ItemValues == [i \in 1..Len(Items) |-> value[Items[i]]]

Range(seq) == {seq[i] : i \in 1..Len(seq)}

\* Elements the caller owns: allocated but not linked in the queue.
Held == allocE \ Range(Items)

\* ------------------------------------------------------------ libc
\* Byte i (1-based) of a C string, the terminating NUL past its end.
ByteAt(s, i) == IF i <= Len(s) THEN s[i] ELSE 0

\* strncpy(dst, src, n): the n bytes it writes, src then NUL padding.
Strncpy(src, n) == [i \in 1..n |-> ByteAt(src, i)]

\* The C string a buffer holds: the bytes before its first NUL.
CString(b) ==
    LET nul == {i \in 1..Len(b) : b[i] = 0}
    IN  IF nul = {} THEN b
        ELSE SubSeq(b, 1, (CHOOSE i \in nul : \A j \in nul : i <= j) - 1)

\* ------------------------------------------------------------ the calls
NoSwaps == [n \in Nodes |-> 0]

\* op returned ret; s is the string a successful insertion was given, buf the
\* caller's buffer of bufsize bytes after the call, swaps[n] the number of
\* times the call exchanged the two fields of node n.  The other fields say
\* how the call went: alloc is what malloc and strdup answered an insertion,
\* sp the buffer argument of a remove, copyLen the count it handed strncpy,
\* nullStores and outside the bytes it stored through a null sp and outside
\* the buffer, and returned is FALSE when such a store trapped.  While a call
\* is taken loop iteration by loop iteration, pc is the loop it is in and loc
\* its local variables; pc is "done" once it has returned.
Call(op, s, ret, bufsize, buf, swaps) ==
    [op |-> op, s |-> s, ret |-> ret, bufsize |-> bufsize, buf |-> buf,
     swaps |-> swaps, alloc |-> "none", sp |-> "none", copyLen |-> 0,
     nullStores |-> 0, outside |-> 0, returned |-> TRUE,
     pc |-> "done", loc |-> <<>>]

\* A call that takes no string and no buffer.
Plain(op, ret) == Call(op, <<>>, ret, 0, <<>>, NoSwaps)

\* Memory with nothing allocated.
Empty ==
    [next |-> [n \in Nodes |-> NULL], prev |-> [n \in Nodes |-> NULL],
     value |-> [e \in Elems |-> <<>>], allocE |-> {}, allocS |-> {},
     allocQ |-> FALSE]

\* The memory after a q_new whose malloc succeeded.
Fresh == [INIT_LIST_HEAD(Empty, Sentinel) EXCEPT !.allocQ = TRUE]

\* q_new(): the handle is NULL when malloc fails, else an empty queue.
Init ==
    /\ head \in {NULL, Sentinel}
    /\ next = IF head = NULL THEN Empty.next ELSE Fresh.next
    /\ prev = IF head = NULL THEN Empty.prev ELSE Fresh.prev
    /\ value = Empty.value
    /\ allocE = {}
    /\ allocS = {}
    /\ allocQ = (head # NULL)
    /\ count = 0
    /\ last = Plain("q_new", head)

\* malloc/strdup outcomes that make an insertion fail.
AllocFailures == {"no_element", "no_string"}

\* inserted with list_add_tail in both functions.
inserted_AlwaysTail(m, hd, new, s, atHead) ==
    LET m0 == [m EXCEPT !.allocE = @ \cup {new}, !.allocS = @ \cup {new},
                        !.value[new] = s]
    IN  list_add_tail(m0, new, hd)

\* The memory after a successful insertion: malloc returned the free block
\* new, strdup a copy of s, and new is linked first (atHead) or last.
inserted(m, hd, new, s, atHead) ==
    LET m0 == [m EXCEPT !.allocE = @ \cup {new}, !.allocS = @ \cup {new},
                        !.value[new] = s]
    IN  IF atHead THEN list_add(m0, new, hd) ELSE list_add_tail(m0, new, hd)

\* strdup_failed without the free(new).
strdup_failed_NoFree(m, new) == [m EXCEPT !.allocE = @ \cup {new}]

\* The memory after an insertion whose strdup returned NULL: malloc returned
\* the free block new, and free(new) gave it back.
strdup_failed(m, new) ==
    LET m0 == [m EXCEPT !.allocE = @ \cup {new}]
    IN  [m0 EXCEPT !.allocE = @ \ {new}]

\* q_insert_head(head, s) and q_insert_tail(head, s): atHead picks which.
\* The call fails on a NULL head, when malloc returns NULL and when strdup
\* does, which either may do in any call.
Insert(atHead, s) ==
    LET op == IF atHead THEN "q_insert_head" ELSE "q_insert_tail"
    IN  \/ /\ head = NULL
           /\ last' = Plain(op, 0)
           /\ UNCHANGED <<head, next, prev, value, allocE, allocS, allocQ, count>>
        \/ /\ head # NULL
           /\ last' = [Plain(op, 0) EXCEPT !.alloc = "no_element"]
           /\ UNCHANGED <<head, next, prev, value, allocE, allocS, allocQ, count>>
        \/ /\ head # NULL
           /\ \E new \in Pool \ allocE : Store(strdup_failed(Mem, new))
           /\ last' = [Plain(op, 0) EXCEPT !.alloc = "no_string"]
           /\ UNCHANGED <<head, count>>
        \/ /\ head # NULL
           /\ \E new \in Pool \ allocE :
                Store(inserted(Mem, head, new, s, atHead))
           /\ count' = count + 1
           /\ last' = [Call(op, s, 1, 0, <<>>, NoSwaps) EXCEPT !.alloc = "ok"]
           /\ UNCHANGED head

q_insert_head == \E s \in Inserted : Insert(TRUE, s)

q_insert_tail == \E s \in Inserted : Insert(FALSE, s)

\* The caller's buffer before a remove: bufsize bytes of 'x'.
BufBefore(bufsize) == [i \in 1..bufsize |-> 120]

\* CopyOut without the assignment of the terminating NUL.
CopyOut_NoTerminator(v, bufsize) ==
    LET n == bufsize - 1
        written == Strncpy(v, n)
    IN  [i \in 1..bufsize |-> IF i <= n THEN written[i]
                                        ELSE BufBefore(bufsize)[i]]

\* strncpy(sp, v, bufsize - 1) followed by sp[bufsize - 1] = '\0'.
CopyOut(v, bufsize) ==
    LET n == bufsize - 1
        written == Strncpy(v, n)
        b1 == [i \in 1..bufsize |-> IF i <= n THEN written[i]
                                               ELSE BufBefore(bufsize)[i]]
    IN  [b1 EXCEPT ![bufsize] = 0]

\* The count q_remove_head and q_remove_tail hand strncpy: bufsize - 1 in
\* size_t arithmetic.
CopyLen(bufsize) == (bufsize - 1) % (2 ^ SizeWidth)

\* The bytes a remove stores outside sp[0 .. bufsize - 1], sp not null: those
\* of strncpy past the buffer, and the terminator when sp + bufsize - 1 is
\* not in the buffer.
Outside(bufsize) ==
    (IF CopyLen(bufsize) > bufsize THEN CopyLen(bufsize) - bufsize ELSE 0)
    + (IF bufsize - 1 \in 0..(bufsize - 1) THEN 0 ELSE 1)

\* removed with the element released as well.
removed_Released(m, rm) ==
    LET m0 == list_del(m, rm)
    IN  [m0 EXCEPT !.allocE = @ \ {rm}, !.allocS = @ \ {rm}]

\* The memory after a remove has unlinked rm.
removed(m, rm) == list_del(m, rm)

\* NotRemoved with sp[0] = '\0' stored ahead of the return.
NotRemoved_ClearsFirst(op, sp, bufsize) ==
    [Call(op, <<>>, NULL, bufsize,
          IF sp = "NULL" THEN <<>>
          ELSE [i \in 1..bufsize |-> IF i = 1 THEN 0 ELSE 120], NoSwaps)
     EXCEPT !.sp = sp]

\* The record of a remove that found no element: the buffer is as it was.
NotRemoved(op, sp, bufsize) ==
    [Call(op, <<>>, NULL, bufsize,
          IF sp = "NULL" THEN <<>> ELSE BufBefore(bufsize), NoSwaps)
     EXCEPT !.sp = sp]

\* q_remove_head(head, sp, bufsize) and q_remove_tail(head, sp, bufsize):
\* atHead picks which.  Neither sp nor bufsize is tested, so with a null sp or
\* bufsize 0 the two stores go through a null pointer or outside the buffer:
\* the store traps and the call never returns, or it lands and the call goes
\* on.  The caller releases the element a remove returned before it removes
\* another one.
Remove(atHead, sp, bufsize) ==
    LET op == IF atHead THEN "q_remove_head" ELSE "q_remove_tail"
    IN  IF head = NULL \/ list_empty(Mem, head)
        THEN /\ last' = NotRemoved(op, sp, bufsize)
             /\ UNCHANGED <<head, next, prev, value, allocE, allocS, allocQ, count>>
        ELSE LET rm == IF atHead THEN next[head] ELSE prev[head]
                 inBuffer == sp # "NULL" /\ bufsize >= 1
                 stores == [NotRemoved(op, sp, bufsize) EXCEPT
                              !.copyLen = CopyLen(bufsize),
                              !.nullStores = IF sp = "NULL"
                                             THEN CopyLen(bufsize) + 1 ELSE 0,
                              !.outside = IF sp = "NULL" THEN 0
                                          ELSE Outside(bufsize)]
             IN  /\ Held = {}
                 /\ \/ /\ Store(removed(Mem, rm))
                       /\ count' = count - 1
                       /\ last' = [stores EXCEPT
                                     !.ret = rm,
                                     !.buf = IF inBuffer
                                             THEN CopyOut(value[rm], bufsize)
                                             ELSE <<>>]
                       /\ UNCHANGED head
                    \/ /\ ~inBuffer
                       /\ last' = [stores EXCEPT !.returned = FALSE]
                       /\ UNCHANGED <<head, next, prev, value, allocE, allocS,
                                      allocQ, count>>

q_remove_head == \E a \in SpArgs : Remove(TRUE, a[1], a[2])

q_remove_tail == \E a \in SpArgs : Remove(FALSE, a[1], a[2])

\* q_release_element(e): free(e->value); free(e).  The freed blocks are gone;
\* the model clears their contents.
release_element(m, e) ==
    [m EXCEPT !.allocS = @ \ {e}, !.allocE = @ \ {e},
              !.value[e] = <<>>, !.next[e] = NULL, !.prev[e] = NULL]

\* The caller releases an element a remove handed to it.
q_release_element ==
    \E e \in Held :
        /\ Store(release_element(Mem, e))
        /\ last' = Plain("q_release_element", e)
        /\ UNCHANGED <<head, count>>

\* list_for_each_entry_safe (entry, safe, l, list) of q_free: entry is
\* unlinked and its record freed.  The fields of the record are gone with it,
\* the pointer to the string among them; the string itself is not freed and
\* stays allocated.
RECURSIVE FreeLoop(_, _, _, _)
FreeLoop(m, l, entry, safe) ==
    IF entry # l
    THEN LET m0 == list_del(m, entry)
             m1 == [m0 EXCEPT !.allocE = @ \ {entry}, !.value[entry] = <<>>,
                              !.next[entry] = NULL, !.prev[entry] = NULL]
         IN  FreeLoop(m1, l, safe, m1.next[safe])
    ELSE m

\* The memory after q_free(l): the loop, then free(l).
free(m, l) ==
    LET m1 == FreeLoop(m, l, m.next[l], m.next[m.next[l]])
    IN  [m1 EXCEPT !.allocQ = FALSE, !.next[l] = NULL, !.prev[l] = NULL]

\* q_free(l) on a queue that q_new returned; the caller drops its handle,
\* which dangles from then on.
q_free ==
    /\ head # NULL
    /\ Store(free(Mem, head))
    /\ head' = NULL
    /\ count' = 0
    /\ last' = Plain("q_free", 0)

\* list_for_each (node, head) length++;
RECURSIVE SizeLoop(_, _, _, _)
SizeLoop(m, hd, node, length) ==
    IF node # hd THEN SizeLoop(m, hd, m.next[node], length + 1) ELSE length

\* size with the count started at 1.
size_CountsSentinel(m, hd) ==
    IF hd = NULL \/ list_empty(m, hd) THEN 0
    ELSE SizeLoop(m, hd, m.next[hd], 1)

size(m, hd) ==
    IF hd = NULL \/ list_empty(m, hd) THEN 0
    ELSE SizeLoop(m, hd, m.next[hd], 0)

q_size ==
    /\ last' = Plain("q_size", size(Mem, head))
    /\ UNCHANGED <<head, next, prev, value, allocE, allocS, allocQ, count>>

\* The fast/slow walk of q_delete_mid: the node slow ends on.
RECURSIVE MidLoop(_, _, _, _)
MidLoop(m, hd, slow, fast) ==
    IF fast # hd /\ fast # m.next[hd]
    THEN MidLoop(m, hd, m.next[slow], m.next[m.next[fast]])
    ELSE slow

\* delete_mid with slow started on the sentinel.
delete_mid_SlowFromHead(m, hd) ==
    LET slow == MidLoop(m, hd, hd, m.next[m.next[hd]])
    IN  release_element(list_del(m, slow), slow)

delete_mid(m, hd) ==
    LET slow == MidLoop(m, hd, m.next[hd], m.next[m.next[hd]])
    IN  release_element(list_del(m, slow), slow)

\* q_delete_mid without the test for a list of one element.
q_delete_mid_NoSingular ==
    IF head = NULL \/ list_empty(Mem, head)
    THEN /\ last' = Plain("q_delete_mid", 0)
         /\ UNCHANGED <<head, next, prev, value, allocE, allocS, allocQ, count>>
    ELSE /\ Store(delete_mid(Mem, head))
         /\ count' = count - 1
         /\ last' = Plain("q_delete_mid", 1)
         /\ UNCHANGED head

q_delete_mid ==
    IF head = NULL \/ list_empty(Mem, head) \/ list_is_singular(Mem, head)
    THEN /\ last' = Plain("q_delete_mid", 0)
         /\ UNCHANGED <<head, next, prev, value, allocE, allocS, allocQ, count>>
    ELSE /\ Store(delete_mid(Mem, head))
         /\ count' = count - 1
         /\ last' = Plain("q_delete_mid", 1)
         /\ UNCHANGED head

\* q_delete_dup(head): the body is only "return true".
delete_dup(m, hd) == m

q_delete_dup ==
    /\ Store(delete_dup(Mem, head))
    /\ last' = Plain("q_delete_dup", 1)
    /\ UNCHANGED <<head, count>>

\* SwapLoop leaving after the first exchange.
SwapLoop_FirstPairOnly(m, hd, node) ==
    IF node # hd /\ m.next[node] # hd
    THEN list_move_tail(m, m.next[node], node)
    ELSE m

\* The loop of q_swap: node->next is moved in front of node, pair by pair.
RECURSIVE SwapLoop(_, _, _)
SwapLoop(m, hd, node) ==
    IF node # hd /\ m.next[node] # hd
    THEN LET m1 == list_move_tail(m, m.next[node], node)
         IN  SwapLoop(m1, hd, m1.next[node])
    ELSE m

swap(m, hd) == SwapLoop(m, hd, m.next[hd])

q_swap ==
    /\ IF head = NULL \/ list_empty(Mem, head) \/ list_is_singular(Mem, head)
       THEN UNCHANGED <<next, prev, value, allocE, allocS, allocQ>>
       ELSE Store(swap(Mem, head))
    /\ last' = Plain("q_swap", 0)
    /\ UNCHANGED <<head, count>>

\* ReverseLoop without the assignment node->prev = buff.
RECURSIVE ReverseLoop_NextOnly(_, _, _, _)
ReverseLoop_NextOnly(m, hd, node, swaps) ==
    LET buff == m.next[node]
        m1 == [m EXCEPT !.next[node] = m.prev[node]]
        swaps1 == [swaps EXCEPT ![node] = @ + 1]
    IN  IF buff # hd THEN ReverseLoop_NextOnly(m1, hd, buff, swaps1)
        ELSE [m |-> m1, swaps |-> swaps1]

\* The do-while loop of q_reverse from node on: the memory it leaves and how
\* often it exchanged the next and prev of each node.
RECURSIVE ReverseLoop(_, _, _, _)
ReverseLoop(m, hd, node, swaps) ==
    LET buff == m.next[node]
        m1 == [m EXCEPT !.next[node] = m.prev[node], !.prev[node] = buff]
        swaps1 == [swaps EXCEPT ![node] = @ + 1]
    IN  IF buff # hd THEN ReverseLoop(m1, hd, buff, swaps1)
        ELSE [m |-> m1, swaps |-> swaps1]

\* reverse with the loop started on the first element.
reverse_SkipSentinel(m, hd) == ReverseLoop(m, hd, m.next[hd], NoSwaps)

reverse(m, hd) == ReverseLoop(m, hd, hd, NoSwaps)

\* The memory q_reverse(hd) leaves, called on memory m.
reversed(m, hd) ==
    IF hd = NULL \/ list_empty(m, hd) \/ list_is_singular(m, hd) THEN m
    ELSE reverse(m, hd).m

q_reverse ==
    /\ IF head = NULL \/ list_empty(Mem, head) \/ list_is_singular(Mem, head)
       THEN /\ UNCHANGED <<next, prev, value, allocE, allocS, allocQ>>
            /\ last' = Plain("q_reverse", 0)
       ELSE LET r == reverse(Mem, head)
            IN  /\ Store(r.m)
                /\ last' = Call("q_reverse", <<>>, 0, 0, <<>>, r.swaps)
    /\ UNCHANGED <<head, count>>

\* strcmp(s, t): the difference of the first pair of bytes that differ, taken
\* as unsigned chars; 0 when the strings are equal.
RECURSIVE StrcmpFrom(_, _, _)
StrcmpFrom(s, t, i) ==
    IF ByteAt(s, i) # ByteAt(t, i) THEN ByteAt(s, i) - ByteAt(t, i)
    ELSE IF ByteAt(s, i) = 0 THEN 0
    ELSE StrcmpFrom(s, t, i + 1)

Strcmp(s, t) == StrcmpFrom(s, t, 1)

\* element_t_cmp with the two strings exchanged.
element_t_cmp_Swapped(m, a, b) == Strcmp(m.value[b], m.value[a])

element_t_cmp(m, a, b) == Strcmp(m.value[a], m.value[b])

\* One assignment through the pointer tail of merge: tail is either the
\* address of the local variable head (NULL here) or of node tail's next field.
\* st holds the memory m and the local head.
AssignTail(st, tail, node) ==
    IF tail = NULL THEN [st EXCEPT !.head = node]
    ELSE [st EXCEPT !.m.next[tail] = node]

\* MergeLoop taking from a only when cmp(a, b) < 0.
RECURSIVE MergeLoop_Strict(_, _, _, _)
MergeLoop_Strict(st, tail, a, b) ==
    IF element_t_cmp(st.m, a, b) < 0
    THEN LET st1 == AssignTail(st, tail, a)
             a1 == st1.m.next[a]
         IN  IF a1 = NULL THEN AssignTail(st1, a, b)
             ELSE MergeLoop_Strict(st1, a, a1, b)
    ELSE LET st1 == AssignTail(st, tail, b)
             b1 == st1.m.next[b]
         IN  IF b1 = NULL THEN AssignTail(st1, b, a)
             ELSE MergeLoop_Strict(st1, b, a, b1)

\* The while (1) loop of merge.
RECURSIVE MergeLoop(_, _, _, _)
MergeLoop(st, tail, a, b) ==
    IF element_t_cmp(st.m, a, b) <= 0
    THEN LET st1 == AssignTail(st, tail, a)
             a1 == st1.m.next[a]
         IN  IF a1 = NULL THEN AssignTail(st1, a, b)
             ELSE MergeLoop(st1, a, a1, b)
    ELSE LET st1 == AssignTail(st, tail, b)
             b1 == st1.m.next[b]
         IN  IF b1 = NULL THEN AssignTail(st1, b, a)
             ELSE MergeLoop(st1, b, a, b1)

\* merge(cmp, a, b): the memory it leaves and the first node of the merged chain.
merge(m, a, b) == MergeLoop([m |-> m, head |-> NULL], NULL, a, b)

\* The fast/slow walk of merge_sort: the node slow ends on.
RECURSIVE SplitLoop(_, _, _)
SplitLoop(m, slow, fast) ==
    IF fast # NULL /\ m.next[fast] # NULL
    THEN SplitLoop(m, m.next[slow], m.next[m.next[fast]])
    ELSE slow

\* merge_sort(first, cmp) on the NULL-terminated chain starting at first.  C
\* leaves the order in which the two arguments of merge() are evaluated to
\* the compiler: leftFirst is the build's choice.
RECURSIVE merge_sort(_, _, _)
merge_sort(m, first, leftFirst) ==
    IF m.next[first] = NULL THEN [m |-> m, head |-> first]
    ELSE LET slow == SplitLoop(m, m.next[first], m.next[m.next[first]])
             m1 == [m EXCEPT !.next[m.prev[slow]] = NULL]
         IN  IF leftFirst
             THEN LET l == merge_sort(m1, first, leftFirst)
                      r == merge_sort(l.m, slow, leftFirst)
                  IN  merge(r.m, l.head, r.head)
             ELSE LET r == merge_sort(m1, slow, leftFirst)
                      l == merge_sort(r.m, first, leftFirst)
                  IN  merge(l.m, l.head, r.head)

\* The do-while loop of reconnect from node on.
RECURSIVE ReconnectLoop(_, _)
ReconnectLoop(m, node) ==
    LET m1 == [m EXCEPT !.prev[m.next[node]] = node]
        node1 == m1.next[node]
    IN  IF m1.next[node1] # NULL THEN ReconnectLoop(m1, node1)
        ELSE [m |-> m1, node |-> node1]

\* reconnect without the assignment head->prev = node.
reconnect_NoHeadPrev(m, hd) ==
    LET r == ReconnectLoop(m, hd)
    IN  [r.m EXCEPT !.next[r.node] = hd]

reconnect(m, hd) ==
    LET r == ReconnectLoop(m, hd)
    IN  [r.m EXCEPT !.next[r.node] = hd, !.prev[hd] = r.node]

sort(m, hd, leftFirst) ==
    LET m1 == [m EXCEPT !.next[m.prev[hd]] = NULL]
        r == merge_sort(m1, m1.next[hd], leftFirst)
        m2 == [r.m EXCEPT !.next[hd] = r.head]
    IN  reconnect(m2, hd)

q_sort ==
    /\ IF head = NULL \/ list_empty(Mem, head) \/ list_is_singular(Mem, head)
       THEN UNCHANGED <<next, prev, value, allocE, allocS, allocQ>>
       ELSE \E leftFirst \in BOOLEAN : Store(sort(Mem, head, leftFirst))
    /\ last' = Plain("q_sort", 0)
    /\ UNCHANGED <<head, count>>

Next ==
    \/ q_insert_head
    \/ q_insert_tail
    \/ q_remove_head
    \/ q_remove_tail
    \/ q_release_element
    \/ q_size
    \/ q_delete_mid
    \/ q_delete_dup
    \/ q_swap
    \/ q_reverse
    \/ q_sort
    \/ q_free

Spec == Init /\ [][Next]_vars

\* ------------------------------------------ the list transformations
\* The memory after q_new and q_insert_tail of vals[1], ..., vals[n], malloc
\* handing out the blocks in address order.
RECURSIVE Filled(_, _)
Filled(vals, n) ==
    IF n = 0 THEN Fresh
    ELSE inserted(Filled(vals, n - 1), Sentinel, n + 1, vals[n], FALSE)

\* A queue of up to MaxLen strings, built by insertions at the tail.
InitT ==
    \E n \in 0..MaxLen : \E vals \in [1..n -> Strings] :
        /\ head = Sentinel
        /\ next = Filled(vals, n).next
        /\ prev = Filled(vals, n).prev
        /\ value = Filled(vals, n).value
        /\ allocE = Filled(vals, n).allocE
        /\ allocS = Filled(vals, n).allocS
        /\ allocQ = Filled(vals, n).allocQ
        /\ count = n
        /\ last = IF n = 0 THEN Plain("q_new", Sentinel)
                  ELSE Call("q_insert_tail", vals[n], 1, 0, <<>>, NoSwaps)

NextT ==
    \/ q_delete_mid
    \/ q_delete_dup
    \/ q_swap
    \/ q_reverse
    \/ q_sort

\* The list transformations applied, in any order, to such a queue.
SpecT == InitT /\ [][NextT]_vars

\* -------------------------------------------- the loops, step by step
\* q_size, q_delete_mid, q_swap, q_reverse, q_sort and q_free taken one loop
\* iteration at a time: one call, from its entry to its return, on a queue
\* that insertions have just built.
Running == last.pc # "done"

\* No call has been made on the queue since it was built.
Built == last.op \in {"q_new", "q_insert_tail"}

At(op, pc) == last.op = op /\ last.pc = pc

\* The call of op has come to loop pc with locals loc.
Enter(op, pc, loc) == last' = [Plain(op, 0) EXCEPT !.pc = pc, !.loc = loc]

\* The running call goes on at pc with locals loc.
Goto(pc, loc) == last' = [last EXCEPT !.pc = pc, !.loc = loc]

Return(op, ret) == last' = Plain(op, ret)

Short == head = NULL \/ list_empty(Mem, head) \/ list_is_singular(Mem, head)

step_q_size ==
    \/ /\ Built
       /\ IF head = NULL \/ list_empty(Mem, head)
          THEN Return("q_size", 0)
          ELSE Enter("q_size", "for", [node |-> next[head], length |-> 0])
       /\ UNCHANGED <<head, next, prev, value, allocE, allocS, allocQ, count>>
    \/ /\ At("q_size", "for")
       /\ IF last.loc.node # head
          THEN Goto("for", [node |-> next[last.loc.node],
                            length |-> last.loc.length + 1])
          ELSE Return("q_size", last.loc.length)
       /\ UNCHANGED <<head, next, prev, value, allocE, allocS, allocQ, count>>

step_q_delete_mid ==
    \/ /\ Built
       /\ IF Short
          THEN Return("q_delete_mid", 0)
          ELSE Enter("q_delete_mid", "while",
                     [slow |-> next[head], fast |-> next[next[head]]])
       /\ UNCHANGED <<head, next, prev, value, allocE, allocS, allocQ, count>>
    \/ /\ At("q_delete_mid", "while")
       /\ LET slow == last.loc.slow
              fast == last.loc.fast
          IN  IF fast # head /\ fast # next[head]
              THEN /\ Goto("while", [slow |-> next[slow],
                                     fast |-> next[next[fast]]])
                   /\ UNCHANGED <<next, prev, value, allocE, allocS, allocQ,
                                  count>>
              ELSE /\ Store(release_element(list_del(Mem, slow), slow))
                   /\ count' = count - 1
                   /\ Return("q_delete_mid", 1)
       /\ UNCHANGED head

step_q_swap ==
    \/ /\ Built
       /\ IF Short
          THEN Return("q_swap", 0)
          ELSE Enter("q_swap", "for", [node |-> next[head]])
       /\ UNCHANGED <<head, next, prev, value, allocE, allocS, allocQ, count>>
    \/ /\ At("q_swap", "for")
       /\ LET node == last.loc.node
              m1 == list_move_tail(Mem, next[node], node)
          IN  IF node # head /\ next[node] # head
              THEN /\ Store(m1)
                   /\ Goto("for", [node |-> m1.next[node]])
              ELSE /\ Return("q_swap", 0)
                   /\ UNCHANGED <<next, prev, value, allocE, allocS, allocQ>>
       /\ UNCHANGED <<head, count>>

\* reverse_again with NULL for the end of the list.
reverse_again_UntilNull(node, hd) == node # NULL

\* The test of the do-while loop of q_reverse.
reverse_again(node, hd) == node # hd

step_q_reverse ==
    \/ /\ Built
       /\ IF Short
          THEN Return("q_reverse", 0)
          ELSE Enter("q_reverse", "do", [node |-> head])
       /\ UNCHANGED <<head, next, prev, value, allocE, allocS, allocQ, count>>
    \/ /\ At("q_reverse", "do")
       /\ LET node == last.loc.node
              buff == next[node]
          IN  /\ next' = [next EXCEPT ![node] = prev[node]]
              /\ prev' = [prev EXCEPT ![node] = buff]
              /\ IF reverse_again(buff, head)
                 THEN Goto("do", [node |-> buff])
                 ELSE Return("q_reverse", 0)
       /\ UNCHANGED <<head, value, allocE, allocS, allocQ, count>>

step_q_free ==
    \/ /\ Built
       /\ head # NULL
       /\ Enter("q_free", "for",
                [entry |-> next[head], safe |-> next[next[head]]])
       /\ UNCHANGED <<head, next, prev, value, allocE, allocS, allocQ, count>>
    \/ /\ At("q_free", "for")
       /\ LET entry == last.loc.entry
              safe == last.loc.safe
              m0 == list_del(Mem, entry)
              m1 == [m0 EXCEPT !.allocE = @ \ {entry}, !.value[entry] = <<>>,
                               !.next[entry] = NULL, !.prev[entry] = NULL]
          IN  IF entry # head
              THEN /\ Store(m1)
                   /\ Goto("for", [entry |-> safe, safe |-> m1.next[safe]])
                   /\ UNCHANGED <<head, count>>
              ELSE /\ Store([Mem EXCEPT !.allocQ = FALSE, !.next[head] = NULL,
                                        !.prev[head] = NULL])
                   /\ head' = NULL
                   /\ count' = 0
                   /\ Return("q_free", 0)

\* The locals of a call of merge_sort(first, cmp) at its entry: pc is where
\* it stands, l and r the values of the two arguments of merge(), and a, b,
\* tail (NULL for &head) and head the locals of merge().
Frame(first) ==
    [pc |-> "entry", first |-> first, slow |-> NULL, fast |-> NULL,
     l |-> NULL, r |-> NULL, a |-> NULL, b |-> NULL, tail |-> NULL,
     head |-> NULL]

\* split_start with slow on the first node of the chain.
split_start_AtHead(m, first) == [slow |-> first, fast |-> m.next[first]]

\* The initial slow and fast of merge_sort.
split_start(m, first) ==
    [slow |-> m.next[first], fast |-> m.next[m.next[first]]]

\* The stack of merge_sort calls once a call has returned v to the call on
\* top of callers: that one calls merge_sort for its other argument, or
\* enters merge() when it has both.
Resume(callers, v, leftFirst) ==
    LET g == callers[1]
    IN  IF g.pc = "arg1"
        THEN LET g1 == [g EXCEPT !.pc = "arg2",
                                 !.l = IF leftFirst THEN v ELSE @,
                                 !.r = IF leftFirst THEN @ ELSE v]
             IN  <<Frame(IF leftFirst THEN g.slow ELSE g.first), g1>>
                 \o Tail(callers)
        ELSE LET l == IF leftFirst THEN g.l ELSE v
                 r == IF leftFirst THEN v ELSE g.r
             IN  <<[g EXCEPT !.pc = "merge", !.l = l, !.r = r,
                             !.a = l, !.b = r]>> \o Tail(callers)

\* The call on top of the stack returns v, leaving memory m: to the call of
\* merge_sort below it, or to q_sort, which stores v in head->next and
\* enters reconnect().
ms_return(m, callers, v) ==
    IF callers = <<>>
    THEN /\ Store([m EXCEPT !.next[head] = v])
         /\ Goto("reconnect", [node |-> head])
    ELSE /\ Store(m)
         /\ Goto("merge_sort",
                 [last.loc EXCEPT
                    !.stack = Resume(callers, v, last.loc.leftFirst)])

\* The call of merge_sort on top of the stack goes on as frame f1, leaving
\* memory m.
ms_goes_on(m, f1) ==
    /\ Store(m)
    /\ Goto("merge_sort", [last.loc EXCEPT !.stack[1] = f1])

step_q_sort ==
    \/ /\ Built
       /\ IF Short
          THEN /\ Return("q_sort", 0)
               /\ UNCHANGED <<next, prev, value, allocE, allocS, allocQ>>
          ELSE /\ Store([Mem EXCEPT !.next[prev[head]] = NULL])
               /\ \E leftFirst \in BOOLEAN :
                    Enter("q_sort", "merge_sort",
                          [stack |-> <<Frame(next[head])>>,
                           leftFirst |-> leftFirst])
       /\ UNCHANGED <<head, count>>
    \/ /\ At("q_sort", "merge_sort")
       /\ LET f == last.loc.stack[1]
              callers == Tail(last.loc.stack)
          IN  \/ /\ f.pc = "entry"
                 /\ IF next[f.first] = NULL
                    THEN ms_return(Mem, callers, f.first)
                    ELSE ms_goes_on(Mem,
                           [f EXCEPT !.pc = "while",
                                     !.slow = split_start(Mem, f.first).slow,
                                     !.fast = split_start(Mem, f.first).fast])
              \/ /\ f.pc = "while"
                 /\ IF f.fast # NULL /\ next[f.fast] # NULL
                    THEN ms_goes_on(Mem, [f EXCEPT !.slow = next[f.slow],
                                                   !.fast = next[next[f.fast]]])
                    ELSE ms_goes_on(Mem, [f EXCEPT !.pc = "cut"])
              \/ /\ f.pc = "cut"
                 /\ Store([Mem EXCEPT !.next[prev[f.slow]] = NULL])
                 /\ Goto("merge_sort",
                         [last.loc EXCEPT
                            !.stack = <<Frame(IF last.loc.leftFirst
                                              THEN f.first ELSE f.slow),
                                        [f EXCEPT !.pc = "arg1"]>>
                                      \o callers])
              \/ /\ f.pc = "merge"
                 /\ LET st == [m |-> Mem, head |-> f.head]
                    IN  IF element_t_cmp(Mem, f.a, f.b) <= 0
                        THEN LET st1 == AssignTail(st, f.tail, f.a)
                                 a1 == st1.m.next[f.a]
                                 st2 == AssignTail(st1, f.a, f.b)
                             IN  IF a1 = NULL
                                 THEN ms_return(st2.m, callers, st2.head)
                                 ELSE ms_goes_on(st1.m,
                                        [f EXCEPT !.head = st1.head,
                                                  !.tail = f.a, !.a = a1])
                        ELSE LET st1 == AssignTail(st, f.tail, f.b)
                                 b1 == st1.m.next[f.b]
                                 st2 == AssignTail(st1, f.b, f.a)
                             IN  IF b1 = NULL
                                 THEN ms_return(st2.m, callers, st2.head)
                                 ELSE ms_goes_on(st1.m,
                                        [f EXCEPT !.head = st1.head,
                                                  !.tail = f.b, !.b = b1])
       /\ UNCHANGED <<head, count>>
    \/ /\ At("q_sort", "reconnect")
       /\ LET node == last.loc.node
              m1 == [Mem EXCEPT !.prev[next[node]] = node]
              node1 == next[node]
          IN  IF next[node1] # NULL
              THEN /\ Store(m1)
                   /\ Goto("reconnect", [node |-> node1])
              ELSE /\ Store([m1 EXCEPT !.next[node1] = head,
                                       !.prev[head] = node1])
                   /\ Return("q_sort", 0)
       /\ UNCHANGED <<head, count>>

NextL ==
    \/ step_q_size
    \/ step_q_delete_mid
    \/ step_q_swap
    \/ step_q_reverse
    \/ step_q_sort
    \/ step_q_free

\* The step of the call that is running.
Continue == Running /\ NextL

\* One call, step by step, on a queue built by insertions at the tail; a call
\* that has started keeps taking steps for as long as it can.
SpecL == InitT /\ [][NextL]_vars /\ WF_vars(Continue)

\* ------------------------------------------------------------ properties
Min(a, b) == IF a <= b THEN a ELSE b

TypeOK ==
    /\ head \in {NULL, Sentinel}
    /\ next \in [Nodes -> Nodes \cup {NULL}]
    /\ prev \in [Nodes -> Nodes \cup {NULL}]
    /\ value \in [Elems -> Strings]
    /\ allocE \subseteq Elems
    /\ allocS \subseteq Elems
    /\ allocQ \in BOOLEAN
    /\ count \in 0..MaxLen

\* seq back to front.
Rev(seq) == [i \in 1..Len(seq) |-> seq[Len(seq) + 1 - i]]

\* The position of x in seq.
Pos(seq, x) == CHOOSE i \in 1..Len(seq) : seq[i] = x

\* s <= t in the byte-wise lexicographic order.
LexLeq(s, t) ==
    \E k \in 1..(Len(s) + 1) :
        /\ \A i \in 1..(k - 1) : i <= Len(t) /\ s[i] = t[i]
        /\ k = Len(s) + 1 \/ (k <= Len(t) /\ s[k] < t[k])

\* The strings of the elements of seq are in ascending order.
Ascending(seq, val) ==
    \A i \in 1..(Len(seq) - 1) : LexLeq(val[seq[i]], val[seq[i + 1]])

NoRepeat(seq) == \A i, j \in 1..Len(seq) : seq[i] = seq[j] => i = j

\* The sentinel and the elements linked in the queue.
RingNodes == {head} \cup Range(Items)

\* Following next from the sentinel comes back to the sentinel.
Closes ==
    IF Items = <<>> THEN next[head] = head
    ELSE next[Items[Len(Items)]] = head

\* C1: after any sequence of calls on a queue made by q_new the list is
\* circular and doubly-consistent: following next from the sentinel returns
\* to the sentinel, and n.next.prev = n and n.prev.next = n for the sentinel
\* and every node reachable from it.
C1_CircularDoublyLinked ==
    head # NULL =>
        /\ Closes
        /\ \A n \in RingNodes :
              /\ next[n] # NULL /\ prev[next[n]] = n
              /\ prev[n] # NULL /\ next[prev[n]] = n

\* A queue of three elements that q_sort has just relinked.
C1_Witness ==
    /\ last.op = "q_sort"
    /\ Len(Items) >= 3
    /\ \E i \in 1..(Len(Items) - 1) : Items[i] > Items[i + 1]

\* C2: the list behaves as a sequence of strings: a successful q_insert_head
\* of s puts s in front of the strings read from the sentinel, q_insert_tail
\* puts it behind them, q_remove_head takes away and returns the first one,
\* q_remove_tail the last one; a failed call leaves the strings as they were.
C2_AbstractSequence ==
    [][ \A before \in {ItemValues}, after \in {ItemValues'} :
        /\ (last'.op = "q_insert_head" /\ last'.ret = 1) =>
              after = <<last'.s>> \o before
        /\ (last'.op = "q_insert_tail" /\ last'.ret = 1) =>
              after = before \o <<last'.s>>
        /\ (last'.op = "q_remove_head" /\ last'.ret # NULL) =>
              /\ before # <<>>
              /\ after = Tail(before)
              /\ value'[last'.ret] = Head(before)
        /\ (last'.op = "q_remove_tail" /\ last'.ret # NULL) =>
              /\ before # <<>>
              /\ after = SubSeq(before, 1, Len(before) - 1)
              /\ value'[last'.ret] = before[Len(before)]
        /\ ( /\ last'.op \in {"q_insert_head", "q_insert_tail",
                               "q_remove_head", "q_remove_tail"}
             /\ last'.ret = 0 ) =>
              after = before
      ]_vars

\* Three strings inserted at the tail, "ab" then "" then "ab", read back in
\* that order.
C2_Witness ==
    /\ last.op = "q_insert_tail"
    /\ last.ret = 1
    /\ ItemValues = << <<97, 98>>, <<>>, <<97, 98>> >>

\* C3: q_size(head) is the number of successful insertions minus the number
\* of elements removed or deleted, and 0 for a NULL or empty head.
C3_SizeIsNetCount ==
    /\ size(Mem, head) = count
    /\ last.op = "q_size" => last.ret = count
    /\ (head = NULL \/ Items = <<>>) => size(Mem, head) = 0

\* q_size returned 2 after an element had been removed.
C3_Witness ==
    /\ last.op = "q_size"
    /\ last.ret = 2
    /\ Held # {}

\* C4: q_sort on a list of two or more elements leaves the same elements,
\* each once and with its string, in ascending byte-wise order.
C4_SortAscendingPermutation ==
    [][ (last'.op = "q_sort" /\ Len(Items) >= 2) =>
          \A before \in {Items}, after \in {Items'} :
              /\ Len(after) = Len(before)
              /\ Range(after) = Range(before)
              /\ NoRepeat(after)
              /\ value' = value
              /\ Ascending(after, value')
      ]_vars

\* q_sort has reordered a list of four or more elements.
C4_Witness ==
    /\ last.op = "q_sort"
    /\ Len(Items) >= 4
    /\ \E i \in 1..(Len(Items) - 1) : Items[i] > Items[i + 1]
    /\ \E i \in 1..(Len(Items) - 1) : value[Items[i]] # value[Items[i + 1]]

\* C5: q_sort is stable: two elements with equal strings keep their relative
\* order, and a list already in ascending order keeps the order of its
\* elements.
C5_SortStable ==
    [][ (last'.op = "q_sort" /\ Len(Items) >= 2) =>
          \A before \in {Items}, after \in {Items'} :
              /\ \A i, j \in 1..Len(before) :
                    (i < j /\ value[before[i]] = value[before[j]]) =>
                        Pos(after, before[i]) < Pos(after, before[j])
              /\ Ascending(before, value) => after = before
      ]_vars

\* q_sort has moved an element past two elements with equal strings, which
\* are still in the order of their insertion.
C5_Witness ==
    /\ last.op = "q_sort"
    /\ \E i, j, k \in 1..Len(Items) :
          /\ i < j
          /\ value[Items[i]] = value[Items[j]]
          /\ Items[i] < Items[j]
          /\ j < k
          /\ Items[k] < Items[i]

\* C6: q_reverse on a list of n >= 2 elements puts at position i the element
\* that was at position n-1-i, exchanging next and prev of the sentinel and
\* of every element exactly once.
C6_ReversePositions ==
    [][ (last'.op = "q_reverse" /\ Len(Items) >= 2) =>
          \A before \in {Items} :
              /\ Items' = Rev(before)
              /\ \A n \in Nodes :
                    last'.swaps[n] = IF n \in {head} \cup Range(before) THEN 1 ELSE 0
      ]_vars

\* q_reverse has reversed a list of three or more elements.
C6_Witness ==
    /\ last.op = "q_reverse"
    /\ Len(Items) >= 3
    /\ last.swaps[head] = 1
    /\ Items[1] > Items[Len(Items)]

\* C7: q_swap on a list of n >= 2 elements exchanges the elements at 0-based
\* positions 2k and 2k+1 for every k with 2k+1 < n; with n odd the last
\* element stays last.
C7_SwapPairs ==
    [][ (last'.op = "q_swap" /\ Len(Items) >= 2) =>
          \A before \in {Items} :
              Items' = [i \in 1..Len(before) |->
                          IF i % 2 = 0 THEN before[i - 1]
                          ELSE IF i + 1 <= Len(before) THEN before[i + 1]
                          ELSE before[i]]
      ]_vars

\* q_swap has turned the four elements [a,b,c,d] into [b,a,d,c].
C7_Witness ==
    /\ last.op = "q_swap"
    /\ Items = <<3, 2, 5, 4>>

\* C8: q_delete_mid on a list of n >= 2 elements returns true, unlinks and
\* deallocates exactly the element at 0-based index n \div 2, and leaves the
\* other elements in their order.
C8_DeleteMiddle ==
    [][ (last'.op = "q_delete_mid" /\ Len(Items) >= 2) =>
          \A before \in {Items}, after \in {Items'},
             mid \in {(Len(Items) \div 2) + 1} :
              /\ last'.ret = 1
              /\ after = SubSeq(before, 1, mid - 1)
                            \o SubSeq(before, mid + 1, Len(before))
              /\ allocE' = allocE \ {before[mid]}
              /\ allocS' = allocS \ {before[mid]}
              /\ \A e \in Range(after) : value'[e] = value[e]
      ]_vars

\* q_delete_mid has taken the element at index 2 out of four elements.
C8_Witness ==
    /\ last.op = "q_delete_mid"
    /\ last.ret = 1
    /\ Items = <<2, 3, 5>>
    /\ allocE = {2, 3, 5}

\* The elements of seq whose string occurs once among the strings of seq.
OccurOnce(seq, val) ==
    SelectSeq(seq, LAMBDA e :
        Cardinality({i \in 1..Len(seq) : val[seq[i]] = val[e]}) = 1)

\* C9: q_delete_dup on a list in ascending order leaves exactly the elements
\* whose string occurred once, in their order.
C9_DeleteDupKeepsUnique ==
    [][ last'.op = "q_delete_dup" =>
          \A before \in {Items} :
              Ascending(before, value) => Items' = OccurOnce(before, value)
      ]_vars

\* C10: a remove from a non-empty queue with a buffer of bufsize >= 1 bytes
\* leaves in the buffer, NUL-terminated, the first min(len(v), bufsize-1)
\* bytes of the string v of the removed element; a q_remove_head right after
\* a successful q_insert_head(s), with bufsize > len(s), leaves exactly s.
C10_RemoveCopiesPrefix ==
    [][ /\ ( /\ last'.op \in {"q_remove_head", "q_remove_tail"}
             /\ last'.ret # NULL
             /\ last'.sp = "buffer" /\ last'.bufsize >= 1 ) =>
              LET v == value[last'.ret]
              IN  /\ Len(last'.buf) = last'.bufsize
                  /\ CString(last'.buf) =
                        SubSeq(v, 1, Min(Len(v), last'.bufsize - 1))
                  /\ Len(CString(last'.buf)) < last'.bufsize
        /\ ( /\ last.op = "q_insert_head" /\ last.ret = 1
             /\ last'.op = "q_remove_head" /\ last'.sp = "buffer"
             /\ last'.bufsize > Len(last.s) ) =>
              CString(last'.buf) = last.s
      ]_vars

\* A remove has cut the string "ab" down to "a" in a buffer of two bytes.
C10_Witness ==
    /\ last.op \in {"q_remove_head", "q_remove_tail"}
    /\ last.ret # NULL
    /\ value[last.ret] = <<97, 98>>
    /\ last.sp = "buffer"
    /\ last.bufsize = 2
    /\ last.buf = <<97, 0>>

Removes == {"q_remove_head", "q_remove_tail"}

\* C11: q_remove_head and q_remove_tail on a NULL or empty queue return NULL,
\* store nothing (the caller's buffer is as it was, nothing goes through a
\* null sp or outside the buffer), and leave the queue unchanged.
C11_RemoveFromEmpty ==
    [][ (last'.op \in Removes /\ (head = NULL \/ Items = <<>>)) =>
          /\ last'.ret = NULL
          /\ last'.returned
          /\ last'.nullStores = 0 /\ last'.outside = 0
          /\ last'.sp = "buffer" => last'.buf = BufBefore(last'.bufsize)
          /\ UNCHANGED <<head, next, prev, value, allocE, allocS, allocQ, count>>
      ]_vars

\* q_remove_tail has returned NULL on an empty queue, given MaxBuf bytes.
C11_Witness ==
    /\ last.op = "q_remove_tail"
    /\ last.ret = NULL /\ last.returned
    /\ last.sp = "buffer" /\ last.bufsize = MaxBuf
    /\ head # NULL /\ Items = <<>>

C13_InsertFailure ==
    [][ last'.op \in {"q_insert_head", "q_insert_tail"} =>
          /\ last'.ret \in {0, 1}
          /\ (last'.ret = 0) <=> (head = NULL \/ last'.alloc \in AllocFailures)
          /\ last'.ret = 0 =>
                UNCHANGED <<head, next, prev, value, allocE, allocS, allocQ, count>>
      ]_vars

\* q_insert_head on a queue of one element or more failed in strdup.
C13_Witness ==
    /\ last.op = "q_insert_head"
    /\ last.ret = 0 /\ last.alloc = "no_string"
    /\ Len(Items) >= 1

\* C14: q_remove_head, q_remove_tail, q_swap, q_reverse and q_sort allocate
\* and free nothing: what is allocated and every string are the same after
\* the call as before; the element a remove returns is still allocated with
\* its string, and is no longer linked in the list.
C14_NoAllocation ==
    [][ last'.op \in Removes \cup {"q_swap", "q_reverse", "q_sort"} =>
          /\ allocE' = allocE /\ allocS' = allocS /\ allocQ' = allocQ
          /\ value' = value
          /\ (last'.op \in Removes /\ last'.ret # NULL) =>
                \A before \in {Range(Items)}, after \in {Range(Items')} :
                    /\ last'.ret \in before
                    /\ last'.ret \notin after
                    /\ last'.ret \in allocE' /\ last'.ret \in allocS'
      ]_vars

\* q_remove_tail has returned the element with "ab" from a queue of three;
\* the caller holds it.
C14_Witness ==
    /\ last.op = "q_remove_tail"
    /\ last.ret \in Held /\ last.ret \in allocS
    /\ value[last.ret] = <<97, 98>>
    /\ Len(Items) = 2

\* C15: with a null sp a remove from a non-empty queue still unlinks and
\* returns the first (last) element and stores nothing through sp.
C15_NullBufferSkipsCopy ==
    [][ (last'.op \in Removes /\ last'.sp = "NULL" /\ Items # <<>>) =>
          \A before \in {Items} :
              /\ last'.nullStores = 0
              /\ last'.returned
              /\ last'.ret = IF last'.op = "q_remove_head" THEN Head(before)
                             ELSE before[Len(before)]
              /\ Items' = IF last'.op = "q_remove_head" THEN Tail(before)
                          ELSE SubSeq(before, 1, Len(before) - 1)
      ]_vars

\* C16: q_remove_head and q_remove_tail guard bufsize = 0: they never compute
\* the wrapped count bufsize - 1 = 2^SizeWidth - 1 and store no byte outside
\* sp[0 .. bufsize - 1].
C16_ZeroBufsizeGuarded ==
    last.op \in Removes =>
        /\ last.outside = 0
        /\ last.bufsize = 0 => last.copyLen # 2 ^ SizeWidth - 1

\* C17: on a NULL handle, an empty list and a list of one element q_delete_mid,
\* q_swap, q_reverse and q_sort leave the list entirely unchanged, and
\* q_delete_mid returns false.
C17_ShortListsUntouched ==
    [][ ( /\ last'.op \in {"q_delete_mid", "q_swap", "q_reverse", "q_sort"}
          /\ (head = NULL \/ Len(Items) <= 1) ) =>
          /\ UNCHANGED <<head, next, prev, value, allocE, allocS, allocQ, count>>
          /\ last'.op = "q_delete_mid" => last'.ret = 0
      ]_vars

\* q_delete_mid has returned false on a list of one element.
C17_Witness ==
    /\ last.op = "q_delete_mid"
    /\ last.ret = 0
    /\ head # NULL /\ Len(Items) = 1

\* C18: q_reverse is an involution: reversing the list a q_reverse has left
\* gives back the list it was called on, link by link and string by string,
\* whatever the length and with equal strings in the list.
C18_ReverseTwice ==
    [][ last'.op = "q_reverse" =>
          /\ reversed(Mem', head') = Mem
          /\ reversed(reversed(Mem, head), head) = Mem
      ]_vars

\* q_reverse has reversed a list of MaxLen elements with equal strings among
\* them that does not read the same in both directions.
C18_Witness ==
    /\ last.op = "q_reverse"
    /\ Len(Items) = MaxLen
    /\ ItemValues # Rev(ItemValues)
    /\ \E i, j \in 1..MaxLen : i # j /\ ItemValues[i] = ItemValues[j]

\* C19: every call of q_size, q_delete_mid, q_swap, q_reverse, q_sort and
\* q_free on a well-formed list of any length eventually returns: each of
\* its loops comes to its exit.
C19_CallsReturn == Running ~> ~Running

\* q_sort has come to reconnect() on a list of MaxLen elements.
C19_Witness ==
    /\ At("q_sort", "reconnect")
    /\ Len(Walk(next, next[head], NULL, MaxLen + 1)) = MaxLen

\* The chain of the call of merge_sort on top of the stack.
Chain == Walk(next, last.loc.stack[1].first, NULL, MaxLen + 1)

\* C20: at every split of merge_sort, with either argument of merge()
\* evaluated first, slow->prev is the node right before slow in the
\* NULL-terminated chain being split, and the cut leaves the chain up to
\* that node and the chain from slow on.
C20_SplitAtPredecessor ==
    [][ (At("q_sort", "merge_sort") /\ last.loc.stack[1].pc = "cut") =>
          \A chain \in {Chain}, slow \in {last.loc.stack[1].slow} :
              /\ \E i \in 2..Len(chain) :
                    /\ chain[i] = slow
                    /\ chain[i - 1] = prev[slow]
                    /\ Walk(next', chain[1], NULL, MaxLen + 1)
                         = SubSeq(chain, 1, i - 1)
                    /\ Walk(next', slow, NULL, MaxLen + 1)
                         = SubSeq(chain, i, Len(chain))
      ]_vars

\* A second-level split, of the chain of the argument evaluated second,
\* after the other argument has been sorted: the right half with the left
\* argument first.
C20_Witness ==
    /\ At("q_sort", "merge_sort")
    /\ last.loc.leftFirst
    /\ Len(last.loc.stack) = 2
    /\ last.loc.stack[1].pc = "cut"
    /\ last.loc.stack[2].pc = "arg2"

====
